---- MODULE Spec2Model ----
(***************************************************************************)
(* halloc: boundary-tag allocator with segregated free lists               *)
(* (src/src/malloc.c) on top of the mmap page provider (src/src/linux.c).  *)
(*                                                                         *)
(* The model is the x86-64 (LP64) build: pointers are 8 bytes, so          *)
(* sizeof(AllocMetadata_t) = 4, sizeof(FreeRegionHeader_t) = 24 and        *)
(* sizeof(BlockHeader_t) = 80.  Memory is an array of 32-bit words, kept   *)
(* sparsely: a word that is absent from mem holds 0 (fresh pages of an     *)
(* anonymous mapping read as 0).  A word is the pair <<u, s>> of its low 4 *)
(* bits and its high 28 bits, which is how the bit-field AllocMetadata_t   *)
(* {used:4, size:28} lies in it; a uint32_t or the low half of a pointer   *)
(* v is the word <<v % 16, v \div 16>>.  Addresses stay below 2^31, so the *)
(* high half of every stored pointer is 0.  A size_t that comes from a     *)
(* request may exceed every integer the model can hold: such a size is the *)
(* pair <<hi, lo>> that stands for hi * 2^30 + lo, and a conversion to     *)
(* uint32_t takes hi modulo 4.                                             *)
(***************************************************************************)
EXTENDS Integers, Sequences, FiniteSets, TLC

(***************************************************************************)
(* Program constants                                                       *)
(***************************************************************************)
NULL == 0
PAGE_SIZE == 4096
FREE_BLOCKS_SETS == 6
LARGE_FREE_BLOCK_INDEX == FREE_BLOCKS_SETS - 1
SizeofMetadata == 4
SizeofFreeRegionHeader == 24
SizeofBlockHeader == 80
SizeofUintptr == 8
REGION_OVERHEAD_SIZE == SizeofMetadata * 2
InitialHeapSize == PAGE_SIZE * 4
\* metadata.size is a 28-bit field: a stored size is taken modulo 2^28
SizeFieldMod == 268435456
\* field offsets of FreeRegionHeader_t
FrNextOff == 8
FrPrevOff == 16
\* field offsets of BlockHeader_t
BhPagesOff == 0
BhSizeOff == 4
BhUsedSizeOff == 8
BhNextOff == 16
BhPrevOff == 24
BhFreeRegionsOff == 32

(***************************************************************************)
(* Bounds of the model                                                     *)
(***************************************************************************)
\* how many public calls a client makes in a run
MaxCalls == 3
\* how many public calls a client that only allocates and frees makes
MaxChurnCalls == 5
\* how many allocations the client holds at once
MaxLive == 3
\* how many payload words the client overwrites in a run
MaxWrites == 1
\* how many freed pointers the client remembers
MaxFreed == 1
\* request sizes the clients draw from
Sizes == {4, 64, 20400}
\* a request size that the conversions to uint32_t do not keep: 2^32 - 8
HugeSizes == {<<3, 2^30 - 8>>}
\* a request size that, with the overhead Block_create adds to it, is an
\* exact number of pages, more than the initial extent has
PageFillingSizes ==
    {6 * PAGE_SIZE - (SizeofBlockHeader + SizeofFreeRegionHeader + SizeofMetadata)}
\* a request size that is 12 bytes less than what the initial extent has free
\* once it holds an allocation of 4 bytes (20324 bytes)
NearlyFittingSizes == {20312}
\* the arguments <<num, size>> the client passes to calloc
CallocArgs == {<<1, 4>>, <<4, 16>>, <<4, 0>>}
\* arguments of calloc whose product, 2^32 - 8, the conversions to uint32_t
\* do not keep
HugeCallocArgs == {<<4, 2^30 - 2>>}
\* what the client stores into its payload: a word whose low 4 bits read as
\* used == 1, and one that reads as used == 0
UserWords == {<<1, 5>>}
\* the byte offsets in its payload at which the client stores a word
UserOffsets == {0, 28}
\* offsets from a mapping address that, when outside every mapped page, make
\* the foreign pointers the client passes to free
ForeignOffsets == {16}
\* page numbers at which the page provider may place a mapping
BasePages == {16, 22, 28}
Bases == {p * PAGE_SIZE : p \in BasePages}
\* the two lowest of them: where it places the mappings of the runs that need
\* no more than two blocks
LowBases == {b \in Bases : \E c \in Bases : c > b}

(***************************************************************************)
(* Memory                                                                  *)
(***************************************************************************)
ZeroWord == <<0, 0>>
Enc(v) == <<v % 16, v \div 16>>
Dec(w) == w[1] + 16 * w[2]

(***************************************************************************)
(* Sizes: size_t values <<hi, lo>> = hi * 2^30 + lo, 0 <= lo < 2^30        *)
(***************************************************************************)
Limb == 2^30
SizeT(v) == <<v \div Limb, v % Limb>>
\* a + k for an integer k >= 0
SzAdd(a, k) == <<a[1] + ((a[2] + k) \div Limb), (a[2] + k) % Limb>>
SzLess(a, b) == a[1] < b[1] \/ (a[1] = b[1] /\ a[2] < b[2])
\* the conversion to uint32_t: modulo 2^32 = 4 * 2^30
U32(a) == <<a[1] % 4, a[2]>>
\* the integer a size below 2^31 stands for
Narrow(a) == a[1] * Limb + a[2]
\* a * k for an integer k >= 0
RECURSIVE SzTimes(_, _)
SzTimes(a, k) ==
    IF k = 0 THEN <<0, 0>>
    ELSE LET b == SzTimes(a, k - 1)
         IN <<a[1] + b[1] + ((a[2] + b[2]) \div Limb), (a[2] + b[2]) % Limb>>

\* The heap state h threaded through the operators below is the record
\*   mem        the words of memory that are not 0
\*   blockList  the global blockList
\*   emptyOv    the global emptyBlockOverheadSize
\*   mapped     the page numbers that are mapped (readable and writable)
\*   held       page provider's ledger: address |-> pages, for every mapping
\*              acquired and not released
\*   acquired   address |-> the pages libhalloc_alloc was called with when it
\*              returned the address, until libhalloc_free is called with it
\*   rel        the calls <<address, pages>> the current call made to
\*              libhalloc_free
\*   bad        the addresses outside mapped memory the current call accessed

Load(h, a) == IF a \in DOMAIN h.mem THEN h.mem[a] ELSE ZeroWord

\* a word that becomes 0 stays in h.mem while a call runs; Normalise drops
\* the words that are 0 when the call is done
Store(h, a, w) == [h EXCEPT !.mem = (a :> w) @@ @]

Normalise(m) == [x \in {y \in DOMAIN m : m[y] # ZeroWord} |-> m[x]]

LoadU32(h, a) == Dec(Load(h, a))
StoreU32(h, a, v) == Store(h, a, Enc(v))
\* an 8-byte pointer: low half, then high half (always 0)
LoadPtr(h, a) == Dec(Load(h, a))
StorePtr(h, a, p) == Store(Store(h, a, Enc(p)), a + 4, ZeroWord)

\* AllocMetadata_t bit-fields
Used(h, a) == Load(h, a)[1]
SizeOf(h, a) == Load(h, a)[2]
SetUsed(h, a, u) == Store(h, a, <<u % 16, Load(h, a)[2]>>)
SetSize(h, a, s) == Store(h, a, <<Load(h, a)[1], s % SizeFieldMod>>)

\* *dst = *src, for words
CopyWord(h, dst, src) == Store(h, dst, Load(h, src))
\* item->next = next; item->previous = previous, the links at offsets nxt, prv
SetLinks(h, item, next, previous, nxt, prv) ==
    StorePtr(StorePtr(h, item + nxt, next), item + prv, previous)

IsMapped(h, a) == a >= 0 /\ (a \div PAGE_SIZE) \in h.mapped

\* What a read of the word at a yields.  Inside mapped memory it is the word
\* stored there.  Outside it the behaviour is undefined: ub is the outcome,
\* [crash |-> TRUE] (the access faults) or [crash |-> FALSE, word |-> w] (the
\* read happens to return w).
ReadWord(h, a, ub) == IF IsMapped(h, a) THEN Load(h, a) ELSE ub.word
NoteAccess(h, a) == IF IsMapped(h, a) THEN h ELSE [h EXCEPT !.bad = @ \cup {a}]
Faults(h, a, ub) == ~IsMapped(h, a) /\ ub.crash

(***************************************************************************)
(* Utilitary functions                                                     *)
(***************************************************************************)
toFreeListIndex(size) ==
    IF size <= 32 THEN 0
    ELSE IF size <= 64 THEN 1
    ELSE IF size <= 128 THEN 2
    ELSE IF size <= 256 THEN 3
    ELSE IF size <= 512 THEN 4
    ELSE 5

\* the nodes of a linked list from p on, following the link at offset off
RECURSIVE Walk(_, _, _)
Walk(h, p, off) ==
    IF p = NULL THEN <<>> ELSE <<p>> \o Walk(h, LoadPtr(h, p + off), off)

FreeListHeadAddr(blk, i) == blk + BhFreeRegionsOff + SizeofUintptr * i

\* the free regions of a block in the order the loops over freeRegions[0..5]
\* visit them
RECURSIVE FreeNodesFrom(_, _, _)
FreeNodesFrom(h, blk, i) ==
    IF i >= FREE_BLOCKS_SETS THEN <<>>
    ELSE Walk(h, LoadPtr(h, FreeListHeadAddr(blk, i)), FrNextOff)
         \o FreeNodesFrom(h, blk, i + 1)

FreeNodes(h, blk) == FreeNodesFrom(h, blk, 0)

BlockSeq(h) == Walk(h, h.blockList, BhNextOff)

SeqToSet(s) == {s[i] : i \in DOMAIN s}

(***************************************************************************)
(* Free region methods                                                     *)
(*                                                                         *)
(* A function whose later statements use a value an earlier statement      *)
(* computed is written as several operators: the operator with the         *)
(* function's name computes the value and passes it on to the operator     *)
(* that models the statements after it.                                    *)
(***************************************************************************)
FreeRegion_create(h, start, size) ==
    IF start = NULL THEN h
    ELSE LET footerAddr == start + size - SizeofMetadata
             h1 == SetUsed(h, start, 0)
             h2 == SetSize(h1, start, size)
             h3 == SetLinks(h2, start, NULL, NULL, FrNextOff, FrPrevOff)
         IN CopyWord(h3, footerAddr, start)

FreeRegionMinimumSize == SizeofFreeRegionHeader + SizeofMetadata

\* faulty variant: the region end is aligned to 8 bytes instead of 16
FreeRegion_getSizeForAlignment_align8(original, size) ==
    LET freeMetadataPaddingAmount ==
            IF ~SzLess(size, SizeT(FreeRegionMinimumSize)) THEN 0
            ELSE FreeRegionMinimumSize - (size[2] % FreeRegionMinimumSize)
        regionAlignment == 8
        regionEndAddress == (original % regionAlignment) + (size[2] % regionAlignment)
                                + freeMetadataPaddingAmount + SizeofMetadata
        alignmentPaddingAmount == regionAlignment - (regionEndAddress % regionAlignment)
    IN SzAdd(size, freeMetadataPaddingAmount + alignmentPaddingAmount)

\* faulty variant: no padding when the region end is aligned already
FreeRegion_getSizeForAlignment_pad0(original, size) ==
    LET freeMetadataPaddingAmount ==
            IF ~SzLess(size, SizeT(FreeRegionMinimumSize)) THEN 0
            ELSE FreeRegionMinimumSize - (size[2] % FreeRegionMinimumSize)
        regionAlignment == 16
        regionEndAddress == (original % regionAlignment) + (size[2] % regionAlignment)
                                + freeMetadataPaddingAmount + SizeofMetadata
        alignmentPaddingAmount ==
            (regionAlignment - (regionEndAddress % regionAlignment)) % regionAlignment
    IN SzAdd(size, freeMetadataPaddingAmount + alignmentPaddingAmount)

\* size and the result are size_t.  regionEndAddress is a uint32_t of which
\* only the remainder modulo regionAlignment is used; regionAlignment divides
\* 2^30 and 2^32, so the remainders of the address and of the low part of
\* size give it
FreeRegion_getSizeForAlignment(original, size) ==
    LET freeMetadataPaddingAmount ==
            IF ~SzLess(size, SizeT(FreeRegionMinimumSize)) THEN 0
            ELSE FreeRegionMinimumSize - (size[2] % FreeRegionMinimumSize)
        regionAlignment == 16
        regionEndAddress == (original % regionAlignment) + (size[2] % regionAlignment)
                                + freeMetadataPaddingAmount + SizeofMetadata
        alignmentPaddingAmount == regionAlignment - (regionEndAddress % regionAlignment)
    IN SzAdd(size, freeMetadataPaddingAmount + alignmentPaddingAmount)

\* FreeRegion_split after FreeRegion_create(original, alignedSize), from the
\* test of newFree->metadata.used on.  Returns [h, ret]: ret is the new free
\* region or NULL
FreeRegion_splitRest(h, newFree, newFreeSize) ==
    IF Used(h, newFree) = 1 THEN [h |-> h, ret |-> NULL]
    ELSE IF newFreeSize < FreeRegionMinimumSize THEN [h |-> h, ret |-> NULL]
    ELSE [h |-> FreeRegion_create(h, newFree, newFreeSize), ret |-> newFree]

\* FreeRegion_split once alignedSize is known.  newFreeSize is read before
\* original is rewritten
FreeRegion_splitAt(h, original, alignedSize) ==
    FreeRegion_splitRest(FreeRegion_create(h, original, alignedSize),
                         original + alignedSize,
                         SizeOf(h, original) - alignedSize)

\* returns [h, ret].  Its callers pass a region with
\* alignedSize < original->metadata.size, so alignedSize is below 2^28 and
\* the unsigned difference newFreeSize is exact
FreeRegion_split(h, original, size) ==
    FreeRegion_splitAt(h, original, Narrow(FreeRegion_getSizeForAlignment(original, size)))

(***************************************************************************)
(* Memory block methods                                                    *)
(***************************************************************************)
\* the node after which item goes: the loop
\*   while ((aux->next != NULL) && (item < aux->next)) aux = aux->next;
RECURSIVE InsertionPoint(_, _, _, _)
InsertionPoint(h, aux, item, off) ==
    LET nxt == LoadPtr(h, aux + off)
    IN IF nxt # NULL /\ item < nxt THEN InsertionPoint(h, nxt, item, off) ELSE aux

\* the first node aux of the list from p on with aux->next == item, or NULL
RECURSIVE Predecessor(_, _, _, _)
Predecessor(h, p, item, off) ==
    IF p = NULL THEN NULL
    ELSE IF LoadPtr(h, p + off) = item THEN p
    ELSE Predecessor(h, LoadPtr(h, p + off), item, off)

\* item->next = aux->next; item->previous = aux; aux->next = item
InsertAfter(h, aux, item, nxt, prv) ==
    StorePtr(SetLinks(h, item, LoadPtr(h, aux + nxt), aux, nxt, prv), aux + nxt, item)

\* if (next != NULL) next->previous = previous
SetPrevious(h, next, previous, prv) ==
    IF next = NULL THEN h ELSE StorePtr(h, next + prv, previous)

\* for the aux the search loop found (NULL: it found none):
\*   aux->next = next; if (next != NULL) next->previous = aux
Bypass(h, aux, next, nxt, prv) ==
    IF aux = NULL THEN h ELSE SetPrevious(StorePtr(h, aux + nxt, next), next, aux, prv)

\* Block_addRegionToFreeList once list = &_this->freeRegions[i] is known
Block_addRegionToList(h, list, item) ==
    LET head == LoadPtr(h, list)
    IN IF head = NULL
       THEN StorePtr(SetLinks(h, item, NULL, NULL, FrNextOff, FrPrevOff), list, item)
       ELSE IF head > item
       THEN LET h1 == SetLinks(h, item, head, NULL, FrNextOff, FrPrevOff)
                h2 == StorePtr(h1, head + FrPrevOff, item)
            IN StorePtr(h2, list, item)
       ELSE InsertAfter(h, InsertionPoint(h, head, item, FrNextOff), item,
                        FrNextOff, FrPrevOff)

Block_addRegionToFreeList(h, this, item) ==
    IF item = NULL THEN h
    ELSE IF SizeOf(h, item) = 0 THEN h
    ELSE Block_addRegionToList(h, FreeListHeadAddr(this, toFreeListIndex(SizeOf(h, item))),
                               item)

\* Block_removeRegionFromFreeList once list = &_this->freeRegions[i] is known
Block_removeRegionFromList(h, list, item) ==
    LET head == LoadPtr(h, list)
        next == LoadPtr(h, item + FrNextOff)
    IN SetLinks(IF head = item
                THEN SetPrevious(StorePtr(h, list, next), next, NULL, FrPrevOff)
                ELSE Bypass(h, Predecessor(h, head, item, FrNextOff), next,
                            FrNextOff, FrPrevOff),
                item, NULL, NULL, FrNextOff, FrPrevOff)

\* faulty variant: the region stays in its free list
Block_removeRegionFromFreeList_keep(h, this, item) == h

Block_removeRegionFromFreeList(h, this, item) ==
    IF item = NULL THEN h
    ELSE Block_removeRegionFromList(h, FreeListHeadAddr(this, toFreeListIndex(SizeOf(h, item))),
                                    item)

\* addr is the header or the footer of one of the free regions nodes
IsEndOfOneOf(h, nodes, addr) ==
    \E k \in DOMAIN nodes :
        \/ nodes[k] = addr
        \/ nodes[k] + SizeOf(h, nodes[k]) - SizeofMetadata = addr

\* faulty variant: no address is found in the free lists
Block_isFreeRegion_never(h, this, addr) == 0

Block_isFreeRegion(h, this, addr) ==
    IF IsEndOfOneOf(h, FreeNodes(h, this), addr) THEN 1 ELSE 0

\* the end of the three coalescing functions:
\*   region->metadata.size += gone1->metadata.size + gone2->metadata.size
\*   (gone2 = NULL: there is no second one), then the footer at the new end
\*   of region takes the size of region
Block_mergeSizes(h, region, gone1, gone2) ==
    LET size == SizeOf(h, region) + SizeOf(h, gone1)
                    + (IF gone2 = NULL THEN 0 ELSE SizeOf(h, gone2))
        footer == region + (size % SizeFieldMod) - SizeofMetadata
    IN SetSize(SetSize(h, region, size), footer, size)

Block_coallesceBothSides(h, this, left, reference, right) ==
    LET leftFreeRegion == reference - SizeOf(h, left)
        rightFreeRegion == right
    IN Block_addRegionToFreeList(
           Block_mergeSizes(
               Block_removeRegionFromFreeList(
                   Block_removeRegionFromFreeList(
                       Block_removeRegionFromFreeList(h, this, leftFreeRegion),
                       this, rightFreeRegion),
                   this, reference),
               leftFreeRegion, reference, rightFreeRegion),
           this, leftFreeRegion)

\* faulty variant: the left region grows where it is linked, in the list of
\* its old size
Block_coallesceLeftSide_inPlace(h, this, left, reference) ==
    LET leftFreeRegion == reference - SizeOf(h, left)
    IN Block_mergeSizes(Block_removeRegionFromFreeList(h, this, reference),
                        leftFreeRegion, reference, NULL)

Block_coallesceLeftSide(h, this, left, reference) ==
    LET leftFreeRegion == reference - SizeOf(h, left)
    IN Block_addRegionToFreeList(
           Block_mergeSizes(
               Block_removeRegionFromFreeList(
                   Block_removeRegionFromFreeList(h, this, leftFreeRegion),
                   this, reference),
               leftFreeRegion, reference, NULL),
           this, leftFreeRegion)

Block_coallesceRightSide(h, this, reference, right) ==
    LET rightFreeRegion == right
    IN Block_addRegionToFreeList(
           Block_mergeSizes(
               Block_removeRegionFromFreeList(
                   Block_removeRegionFromFreeList(h, this, rightFreeRegion),
                   this, reference),
               reference, right, NULL),
           this, reference)

\* faulty variant: free neighbours are left as they are
Block_coallesceCases_never(h, this, prevRegion, freeRegion, nextRegion, prevIsFree, nextIsFree) ==
    h

\* Block_coallesceFreeRegion once prevIsFree and nextIsFree are known
Block_coallesceCases(h, this, prevRegion, freeRegion, nextRegion, prevIsFree, nextIsFree) ==
    IF prevIsFree = 0 /\ nextIsFree = 1
    THEN Block_coallesceRightSide(h, this, freeRegion, nextRegion)
    ELSE IF prevIsFree = 1 /\ nextIsFree = 0
    THEN Block_coallesceLeftSide(h, this, prevRegion, freeRegion)
    ELSE IF prevIsFree = 1 /\ nextIsFree = 1
    THEN Block_coallesceBothSides(h, this, prevRegion, freeRegion, nextRegion)
    ELSE h

Block_coallesceFreeRegion(h, this, freeRegion) ==
    LET prevRegion == freeRegion - SizeofMetadata
        nextRegion == freeRegion + SizeOf(h, freeRegion)
    IN Block_coallesceCases(h, this, prevRegion, freeRegion, nextRegion,
                            Block_isFreeRegion(h, this, prevRegion),
                            Block_isFreeRegion(h, this, nextRegion))

\* faulty variant: the size of the region is added when it is freed, too
Block_countRegion_add(h, this, region, sign) ==
    StoreU32(h, this + BhUsedSizeOff, LoadU32(h, this + BhUsedSizeOff) + SizeOf(h, region))

\* _this->usedSize += region->metadata.size (sign = 1) or -= (sign = -1)
Block_countRegion(h, this, region, sign) ==
    StoreU32(h, this + BhUsedSizeOff,
             LoadU32(h, this + BhUsedSizeOff) + sign * SizeOf(h, region))

Block_useRegion(h, this, freeRegion) ==
    LET freeRegionFooter == freeRegion + SizeOf(h, freeRegion) - SizeofMetadata
        h1 == SetUsed(h, freeRegion, 1)
        h2 == SetUsed(h1, freeRegionFooter, 1)
    IN Block_countRegion(h2, this, freeRegion, 1)

\* faulty variant: the footer is left as it was
Block_freeFooter_stale(h, regionFooter, freeRegion) == h

\* regionFooter->used = 0; regionFooter->size = freeRegion->metadata.size
Block_freeFooter(h, regionFooter, freeRegion) ==
    SetSize(SetUsed(h, regionFooter, 0), regionFooter, SizeOf(h, freeRegion))

Block_freeRegion(h, this, region) ==
    LET regionFooter == region + SizeOf(h, region) - SizeofMetadata
        h1 == SetUsed(h, region, 0)
        h2 == SetLinks(h1, region, NULL, NULL, FrNextOff, FrPrevOff)
        h3 == Block_freeFooter(h2, regionFooter, region)
    IN Block_countRegion(h3, this, region, -1)

Block_isFull(h, this) ==
    this # NULL /\ LoadU32(h, this + BhUsedSizeOff) = LoadU32(h, this + BhSizeOff)

\* faulty variant: a free region of exactly the aligned size is taken too
RECURSIVE FirstFit_exactFit(_, _, _)
FirstFit_exactFit(h, nodes, size) ==
    IF nodes = <<>> THEN NULL
    ELSE IF ~SzLess(SizeT(SizeOf(h, Head(nodes))),
                    FreeRegion_getSizeForAlignment(Head(nodes), size))
    THEN Head(nodes)
    ELSE FirstFit_exactFit(h, Tail(nodes), size)

\* the first of the free regions nodes with alignedSize < its size, or NULL
RECURSIVE FirstFit(_, _, _)
FirstFit(h, nodes, size) ==
    IF nodes = <<>> THEN NULL
    ELSE IF SzLess(FreeRegion_getSizeForAlignment(Head(nodes), size),
                   SizeT(SizeOf(h, Head(nodes))))
    THEN Head(nodes)
    ELSE FirstFit(h, Tail(nodes), size)

\* the parameter size is a uint32_t
Block_canAllocateSize(h, this, size) ==
    IF this = NULL THEN NULL ELSE FirstFit(h, FreeNodes(h, this), U32(size))

Block_haveUserAllocations(h, this) ==
    IF this = NULL THEN 0
    ELSE IF LoadU32(h, this + BhUsedSizeOff) > h.emptyOv THEN 1 ELSE 0

\* Block_addRegionToFreeList(_this, newFreeRegion) for what FreeRegion_split
\* returned, sp = [h, ret]
Block_addSplit(sp, this) == Block_addRegionToFreeList(sp.h, this, sp.ret)

\* Block_allocateRegion once freeRegion is known.  Returns [h, ret]: ret is
\* the header of the allocated region or NULL
Block_allocateFound(h, this, regionSize, freeRegion) ==
    IF freeRegion = NULL THEN [h |-> h, ret |-> NULL]
    ELSE [h |-> Block_useRegion(
                    Block_addSplit(
                        FreeRegion_split(
                            Block_removeRegionFromFreeList(h, this, freeRegion),
                            freeRegion, regionSize),
                        this),
                    this, freeRegion),
          ret |-> freeRegion]

\* returns [h, ret]; regionSize is a uint32_t
Block_allocateRegion(h, this, size) ==
    LET regionSize == U32(SzAdd(size, REGION_OVERHEAD_SIZE))
    IN Block_allocateFound(h, this, regionSize, Block_canAllocateSize(h, this, regionSize))

Block_deallocateRegion(h, this, region) ==
    Block_coallesceFreeRegion(
        Block_addRegionToFreeList(Block_freeRegion(h, this, region), this, region),
        this, region)

(***************************************************************************)
(* Page provider (src/src/linux.c)                                         *)
(***************************************************************************)
PagesOf(base, pages) == {(base \div PAGE_SIZE) + k : k \in 0..(pages - 1)}

\* uint32_t size = pages * page_size: the pages of a length taken modulo
\* 2^32, which is 2^20 pages
PagesPerU32 == 2^20
MappedPages(pages) == pages % PagesPerU32

\* mmap either fails (mp = NULL) or returns mp, the start of as many unmapped
\* pages as the length holds; which of the two, and where, is the kernel's
\* choice.  A length of 0 fails.
ProviderMayReturn(h, pages, mp) ==
    \/ mp = NULL
    \/ /\ mp \in Bases
       /\ MappedPages(pages) > 0
       /\ PagesOf(mp, MappedPages(pages)) \cap h.mapped = {}

libhalloc_alloc(h, pages, mp) ==
    IF mp = NULL THEN h
    ELSE [h EXCEPT !.mapped = @ \cup PagesOf(mp, MappedPages(pages)),
                   !.held = [x \in DOMAIN @ \cup {mp} |->
                                 IF x = mp THEN MappedPages(pages) ELSE @[x]],
                   !.acquired = [x \in DOMAIN @ \cup {mp} |->
                                     IF x = mp THEN pages ELSE @[x]]]

\* munmap(ptr, pages * page_size), the length a size_t: every page of the
\* range leaves the address space, whatever mapping it belonged to, and its
\* contents are gone
libhalloc_free(h, ptr, pages) ==
    LET first == ptr \div PAGE_SIZE
        gone(x) == first <= x /\ x < first + pages
    IN [h EXCEPT !.mapped = {x \in @ : ~gone(x)},
                 !.mem = [x \in {a \in DOMAIN h.mem : ~gone(a \div PAGE_SIZE)}
                              |-> h.mem[x]],
                 !.held = [x \in {b \in DOMAIN @ : ~gone(b \div PAGE_SIZE)} |-> @[x]],
                 !.acquired = [x \in DOMAIN @ \ {ptr} |-> @[x]],
                 !.rel = @ \cup {<<ptr, pages>>}]

(***************************************************************************)
(* Block creation and the block list                                       *)
(***************************************************************************)
\* size and memorySize are size_t; PAGE_SIZE divides 2^30
BlockPageQuantity(size) ==
    LET memorySize == SzAdd(size, SizeofBlockHeader + SizeofFreeRegionHeader
                                      + SizeofMetadata)
    IN memorySize[1] * (Limb \div PAGE_SIZE) + (memorySize[2] \div PAGE_SIZE)
           + (IF memorySize[2] % PAGE_SIZE > 0 THEN 1 ELSE 0)

\* memset(a, 0, n) for word-aligned a and n: the words of [a, a + n) become 0
memsetZero(h, a, n) ==
    [h EXCEPT !.mem = [x \in {y \in DOMAIN @ : y < a \/ y >= a + n} |-> @[x]]]

\* the end of Block_create: the only free region, covering the rest of the
\* block, is created and linked
Block_createFreeRegion(h, blockHeader) ==
    StorePtr(FreeRegion_create(h, blockHeader + SizeofBlockHeader,
                               LoadU32(h, blockHeader + BhSizeOff) - SizeofBlockHeader),
             FreeListHeadAddr(blockHeader, LARGE_FREE_BLOCK_INDEX),
             blockHeader + SizeofBlockHeader)

\* Block_create after libhalloc_alloc returned blockHeader, which is not NULL.
\* The fields pages and size are uint32_t: pages keeps pageQuantity, size
\* keeps pageQuantity * PAGE_SIZE modulo 2^32
Block_createHeader(h, blockHeader, pageQuantity) ==
    LET h1 == StoreU32(h, blockHeader + BhPagesOff, pageQuantity)
        h2 == StoreU32(h1, blockHeader + BhSizeOff,
                       (pageQuantity % PagesPerU32) * PAGE_SIZE)
        h3 == SetLinks(h2, blockHeader, NULL, NULL, BhNextOff, BhPrevOff)
        h4 == StoreU32(h3, blockHeader + BhUsedSizeOff, SizeofBlockHeader)
        h5 == memsetZero(h4, blockHeader + BhFreeRegionsOff, SizeofUintptr * FREE_BLOCKS_SETS)
    IN Block_createFreeRegion(h5, blockHeader)

\* returns [h, ret]: ret is the new block or NULL
Block_create(h, size, mp) ==
    LET pageQuantity == BlockPageQuantity(size)
        memoryPtr == mp
    IN IF memoryPtr = NULL
       THEN [h |-> libhalloc_alloc(h, pageQuantity, mp), ret |-> NULL]
       ELSE [h |-> Block_createHeader(libhalloc_alloc(h, pageQuantity, mp), memoryPtr,
                                      pageQuantity),
             ret |-> memoryPtr]

\* createHeapBlock after Block_create returned bc = [h, ret]: the first
\* region, for alignment, is allocated in the block bc.ret
createHeapBlock_align(bc) ==
    [h |-> Block_allocateRegion(bc.h, bc.ret, SizeT(SizeofUintptr * 2)).h, ret |-> bc.ret]

\* returns [h, ret]
createHeapBlock(h, size, mp) == createHeapBlock_align(Block_create(h, size, mp))

BlockList_addBlockToList(h, item) ==
    LET head == h.blockList
    IN IF item = NULL THEN h
       ELSE IF head = NULL
       THEN [SetLinks(h, item, NULL, NULL, BhNextOff, BhPrevOff) EXCEPT !.blockList = item]
       ELSE IF head > item
       THEN LET h1 == SetLinks(h, item, head, NULL, BhNextOff, BhPrevOff)
                h2 == StorePtr(h1, head + BhPrevOff, item)
            IN [h2 EXCEPT !.blockList = item]
       ELSE InsertAfter(h, InsertionPoint(h, head, item, BhNextOff), item,
                        BhNextOff, BhPrevOff)

BlockList_removeBlockFromList(h, item) ==
    LET head == h.blockList
        next == LoadPtr(h, item + BhNextOff)
    IN IF item = NULL THEN h
       ELSE SetLinks(IF head = item
                     THEN SetPrevious([h EXCEPT !.blockList = next], next, NULL, BhPrevOff)
                     ELSE Bypass(h, Predecessor(h, head, item, BhNextOff), next,
                                 BhNextOff, BhPrevOff),
                     item, NULL, NULL, BhNextOff, BhPrevOff)

\* the search loop of getBlockWithFreeRegion from block on: the first block
\* that is not full and can allocate size, or NULL; -1 when the loop comes to
\* a block whose pages are no longer mapped, where the read of usedSize faults
RECURSIVE FirstBlockFrom(_, _, _)
FirstBlockFrom(h, block, size) ==
    IF block = NULL THEN NULL
    ELSE IF ~IsMapped(h, block) THEN -1
    ELSE IF ~Block_isFull(h, block) /\ Block_canAllocateSize(h, block, size) # NULL
    THEN block
    ELSE FirstBlockFrom(h, LoadPtr(h, block + BhNextOff), size)

FirstBlockFor(h, size) == FirstBlockFrom(h, h.blockList, size)

\* getBlockWithFreeRegion with an empty list, from the statement
\* emptyBlockOverheadSize = block->usedSize on: with a failed Block_create it
\* reads through NULL.  Returns [h, ret, crashed]
getBlockWithFreeRegion_overhead(h, block, ub) ==
    LET a == block + BhUsedSizeOff
    IN IF Faults(h, a, ub) THEN [h |-> NoteAccess(h, a), ret |-> NULL, crashed |-> TRUE]
       ELSE [h |-> [NoteAccess(h, a) EXCEPT !.emptyOv = Dec(ReadWord(h, a, ub))],
             ret |-> block, crashed |-> FALSE]

\* getBlockWithFreeRegion with an empty list, after createHeapBlock returned
\* cb = [h, ret]
getBlockWithFreeRegion_first(cb, ub) ==
    getBlockWithFreeRegion_overhead(BlockList_addBlockToList(cb.h, cb.ret), cb.ret, ub)

\* getBlockWithFreeRegion after the search found no block and createHeapBlock
\* returned cb = [h, ret]
getBlockWithFreeRegion_new(cb) ==
    [h |-> BlockList_addBlockToList(cb.h, cb.ret), ret |-> cb.ret, crashed |-> FALSE]

\* getBlockWithFreeRegion after the search returned found
getBlockWithFreeRegion_searched(h, found, size, mp) ==
    IF found = -1 THEN [h |-> h, ret |-> NULL, crashed |-> TRUE]
    ELSE IF found # NULL THEN [h |-> h, ret |-> found, crashed |-> FALSE]
    ELSE getBlockWithFreeRegion_new(createHeapBlock(h, size, mp))

\* returns [h, ret, crashed]
getBlockWithFreeRegion(h, size, mp, ub) ==
    IF h.blockList = NULL
    THEN getBlockWithFreeRegion_first(createHeapBlock(h, SizeT(InitialHeapSize), mp), ub)
    ELSE getBlockWithFreeRegion_searched(h, FirstBlockFor(h, size), size, mp)

\* faulty variant: only the upper end of the block is compared
getBlockWithRegion_noLowerBound(h, region) ==
    LET blocks == BlockSeq(h)
        holds(k) == region < blocks[k] + LoadU32(h, blocks[k] + BhSizeOff)
    IN IF \E k \in DOMAIN blocks : holds(k)
       THEN blocks[CHOOSE k \in DOMAIN blocks : holds(k) /\ \A j \in 1..(k - 1) : ~holds(j)]
       ELSE IF \E k \in DOMAIN blocks : ~IsMapped(h, blocks[k]) THEN -1
       ELSE NULL

\* the first block whose address range holds region, or NULL; -1 when the
\* loop comes to a block whose pages are no longer mapped (the last of
\* BlockSeq, as its next reads as NULL), where the read of size faults
getBlockWithRegion(h, region) ==
    LET blocks == BlockSeq(h)
        holds(k) == region >= blocks[k]
                        /\ region < blocks[k] + LoadU32(h, blocks[k] + BhSizeOff)
    IN IF \E k \in DOMAIN blocks : holds(k)
       THEN blocks[CHOOSE k \in DOMAIN blocks : holds(k) /\ \A j \in 1..(k - 1) : ~holds(j)]
       ELSE IF \E k \in DOMAIN blocks : ~IsMapped(h, blocks[k]) THEN -1
       ELSE NULL

(***************************************************************************)
(* Public interface functions                                              *)
(* Each returns [h, ret, crashed]; crashed says the call ended in a fault. *)
(***************************************************************************)
\* malloc after Block_allocateRegion returned ar = [h, ret]
malloc_return(ar) ==
    [h |-> ar.h, ret |-> IF ar.ret = NULL THEN NULL ELSE ar.ret + SizeofMetadata,
     crashed |-> FALSE]

\* malloc after getBlockWithFreeRegion returned g = [h, ret, crashed]
malloc_allocate(g, size) ==
    IF g.crashed THEN [h |-> g.h, ret |-> NULL, crashed |-> TRUE]
    ELSE malloc_return(Block_allocateRegion(g.h, g.ret, size))

malloc(h, size, mp, ub) == malloc_allocate(getBlockWithFreeRegion(h, size, mp, ub), size)

\* faulty variant: one page is released
free_release_onePage(h, block) == libhalloc_free(h, block, 1)

\* libhalloc_free(block, block->pages)
free_release(h, block) == libhalloc_free(h, block, LoadU32(h, block + BhPagesOff))

\* free after Block_deallocateRegion.  BlockList_removeBlockFromList stores
\* into next->previous, which faults when the pages of next are no longer
\* mapped
free_deallocated(h, block) ==
    LET next == LoadPtr(h, block + BhNextOff)
    IN IF Block_haveUserAllocations(h, block) # 0
       THEN [h |-> h, ret |-> NULL, crashed |-> FALSE]
       ELSE IF next # NULL /\ ~IsMapped(h, next)
       THEN [h |-> NoteAccess(h, next + BhPrevOff), ret |-> NULL, crashed |-> TRUE]
       ELSE [h |-> free_release(BlockList_removeBlockFromList(h, block), block),
             ret |-> NULL, crashed |-> FALSE]

\* free after getBlockWithRegion returned block
free_found(h, pointer, block) ==
    IF block = -1 THEN [h |-> h, ret |-> NULL, crashed |-> TRUE]
    ELSE IF block = NULL THEN [h |-> h, ret |-> NULL, crashed |-> FALSE]
    ELSE free_deallocated(Block_deallocateRegion(h, block, pointer - SizeofMetadata), block)

free(h, pointer, ub) ==
    LET allocatedRegion == pointer - SizeofMetadata
        h0 == NoteAccess(h, allocatedRegion)
    IN IF Faults(h, allocatedRegion, ub) THEN [h |-> h0, ret |-> NULL, crashed |-> TRUE]
       ELSE IF ReadWord(h, allocatedRegion, ub)[1] = 0
       THEN [h |-> h0, ret |-> NULL, crashed |-> FALSE]
       ELSE free_found(h0, pointer, getBlockWithRegion(h0, pointer))

\* faulty variant: nothing is copied
memcpy_nothing(h, dst, src, n) == h

\* the low k bytes (k in 1..3) of word src over word dst
MergeBytes(src, dst, k) ==
    LET m == IF k = 1 THEN 16 ELSE IF k = 2 THEN 4096 ELSE 1048576
    IN <<src[1], (src[2] % m) + (dst[2] - (dst[2] % m))>>

\* memcpy(dst, src, n) for word-aligned, non-overlapping dst and src: the whole
\* words first, then the n % 4 bytes that remain
memcpy(h, dst, src, n) ==
    LET whole == 4 * (n \div 4)
        m == h.mem
        inDst(x) == dst <= x /\ x < dst + whole
        moved == {a - src + dst : a \in {y \in DOMAIN m : src <= y /\ y < src + whole}}
        m2 == [x \in {y \in DOMAIN m : ~inDst(y)} \cup moved |->
                   IF inDst(x) THEN m[x - dst + src] ELSE m[x]]
        h1 == [h EXCEPT !.mem = m2]
    IN IF n % 4 = 0 THEN h1
       ELSE Store(h1, dst + whole,
                  MergeBytes(Load(h1, src + whole), Load(h1, dst + whole), n % 4))

\* realloc after free(pointer) returned f = [h, ret, crashed]
realloc_return(f, newMemoryPtr) == [h |-> f.h, ret |-> newMemoryPtr, crashed |-> f.crashed]

\* faulty variant: the old region is freed also when malloc failed
realloc_sized_freeOnFailure(h, pointer, size, raw, m, ub) ==
    LET wrapped == raw < 0
        payloadLength == raw
        copyLength == IF wrapped \/ SzLess(size, SizeT(payloadLength))
                      THEN Narrow(size) ELSE payloadLength
    IN IF pointer = NULL THEN m
       ELSE IF ~wrapped /\ SizeT(payloadLength) = size
       THEN [h |-> h, ret |-> pointer, crashed |-> FALSE]
       ELSE IF m.crashed \/ m.ret = NULL THEN [free(m.h, pointer, ub) EXCEPT !.ret = NULL]
       ELSE realloc_return(free(memcpy(m.h, m.ret, pointer, copyLength), pointer, ub),
                           m.ret)

\* realloc after the header of pointer was read.  raw is
\* headerPtr->size - 8 as an integer: payloadLength, a size_t, is raw when
\* raw >= 0 and wraps to a value above every request size when raw < 0.
\* m = [h, ret, crashed] is what malloc(size) returns
realloc_sized(h, pointer, size, raw, m, ub) ==
    LET wrapped == raw < 0
        payloadLength == raw
        copyLength == IF wrapped \/ SzLess(size, SizeT(payloadLength))
                      THEN Narrow(size) ELSE payloadLength
    IN IF pointer = NULL THEN m
       ELSE IF ~wrapped /\ SizeT(payloadLength) = size
       THEN [h |-> h, ret |-> pointer, crashed |-> FALSE]
       ELSE IF m.crashed \/ m.ret = NULL THEN [m EXCEPT !.ret = NULL]
       ELSE realloc_return(free(memcpy(m.h, m.ret, pointer, copyLength), pointer, ub),
                           m.ret)

\* size is a size_t
realloc(h, pointer, size, mp, ub) ==
    LET headerPtr == pointer - SizeofMetadata
        h0 == NoteAccess(h, headerPtr)
    IN IF Faults(h, headerPtr, ub) THEN [h |-> h0, ret |-> NULL, crashed |-> TRUE]
       ELSE realloc_sized(h0, pointer, size,
                          ReadWord(h, headerPtr, ub)[2] - (SizeofMetadata * 2),
                          malloc(h0, size, mp, ub), ub)

\* calloc after malloc(num * size) returned m = [h, ret, crashed]
calloc_zero(m) ==
    IF m.crashed \/ m.ret = NULL THEN [m EXCEPT !.ret = NULL]
    ELSE [h |-> memsetZero(m.h, m.ret,
                           SizeOf(m.h, m.ret - SizeofMetadata) - (SizeofMetadata * 2)),
          ret |-> m.ret, crashed |-> FALSE]

\* num and size are integers of the model, their product num * size a size_t
calloc(h, num, size, mp, ub) ==
    IF size = 0 THEN [h |-> h, ret |-> NULL, crashed |-> FALSE]
    ELSE calloc_zero(malloc(h, SzTimes(SizeT(size), num), mp, ub))

(***************************************************************************)
(* The test programs of src/src/main.c                                     *)
(*                                                                         *)
(* A test is the sequence of its statements, each a step [op, slot, mult]: *)
(*   malloc   var[slot] = malloc(size * mult)                              *)
(*   assert   the asserts on var[0 .. slot - 1]: not NULL, 16-byte aligned *)
(*   memset   memset(var[slot], 0, size * mult)                            *)
(*   note     addr = (uintptr_t) var[slot]                                 *)
(*   free     free(var[slot])                                              *)
(*   expect   assert(addr == (uintptr_t) var[slot])                        *)
(* A failed assert ends the process.                                       *)
(***************************************************************************)
Step(op, slot, mult) == [op |-> op, slot |-> slot, mult |-> mult]
Mallocs(k) == [i \in 1..k |-> Step("malloc", i - 1, 1)]
Memsets(k) == [i \in 1..k |-> Step("memset", i - 1, 1)]

test_malloc_free_coallesce_left ==
    Mallocs(3) \o <<Step("assert", 3, 0)>> \o Memsets(3)
        \o <<Step("note", 0, 0), Step("free", 1, 0), Step("free", 0, 0),
             Step("malloc", 0, 2), Step("memset", 0, 2), Step("expect", 0, 0),
             Step("free", 0, 0), Step("free", 2, 0)>>

test_malloc_free_coallesce_right ==
    Mallocs(4) \o <<Step("assert", 4, 0)>> \o Memsets(4)
        \o <<Step("note", 2, 0), Step("free", 2, 0), Step("free", 3, 0),
             Step("malloc", 2, 2), Step("memset", 2, 2), Step("expect", 2, 0),
             Step("free", 0, 0), Step("free", 1, 0), Step("free", 2, 0)>>

test_malloc_free_coallesce_leftright ==
    Mallocs(4) \o <<Step("assert", 4, 0)>> \o Memsets(4)
        \o <<Step("note", 1, 0), Step("free", 2, 0), Step("free", 1, 0),
             Step("free", 3, 0), Step("malloc", 1, 3), Step("memset", 1, 3),
             Step("expect", 1, 0), Step("free", 0, 0), Step("free", 1, 0)>>

\* a program of the same statements that is not in main.c: it allocates six
\* blocks, keeps the first, third and fifth in var[0..2], and frees these in
\* that order
frees_every_other ==
    <<Step("malloc", 0, 1), Step("malloc", 3, 1), Step("malloc", 1, 1),
      Step("malloc", 3, 1), Step("malloc", 2, 1), Step("malloc", 3, 1),
      Step("assert", 3, 0),
      Step("free", 0, 0), Step("free", 1, 0), Step("free", 2, 0)>>
\* the block size it runs with
ScatteredSizes == {4}

\* the sizes main passes to the tests
TestedSizes == {64, 4096}
\* the sizes the tests are run with
TestSizes == TestedSizes \cup {20, 128}

(***************************************************************************)
(* The program and its client                                              *)
(***************************************************************************)
VARIABLES
    mem,                    \* memory: address |-> word, for the words that are not 0
    blockList,              \* static BlockHeader_t* blockList
    emptyBlockOverheadSize, \* static uint32_t emptyBlockOverheadSize
    mapped,                 \* the mapped page numbers
    held,                   \* page provider's ledger: address |-> pages, acquired and not released
    acquired,               \* the calls of the page provider: address |-> the pages
                            \* libhalloc_alloc was called with when it returned the address,
                            \* if libhalloc_free was not called with the address since
    live,                   \* client: pointer |-> requested bytes (a size_t), returned and
                            \* not yet freed
    freed,                  \* client: pointer |-> region size, the pointers it remembers
                            \* having freed, their memory not reused since
    writes,                 \* client: how many payload words it has overwritten
    calls,                  \* client: how many public calls it has made
    client,                 \* client: [ops, calls, sizes], the calls it makes, how many,
                            \* and the sizes it asks for; and bases, the addresses the
                            \* page provider places the mappings of the run at
    call,                   \* the last public call: [op, ptr, size]; for calloc ptr is
                            \* num, and dirty says its payload held data before
    ret,                    \* what the last public call returned
    rel,                    \* the libhalloc_free calls of the last public call
    bad,                    \* the addresses outside mapped memory the last call accessed
    crashed,                \* the process has faulted
    var                     \* the test programs of main.c: [pc, slots, addr], the step
                            \* the test is at (0: it has aborted), its array var[] and
                            \* its local addr

vars == <<mem, blockList, emptyBlockOverheadSize, mapped, held, acquired, live, freed,
          writes, calls, client, call, ret, rel, bad, crashed, var>>

EmptyFn == [x \in {} |-> 0]

Heap == [mem |-> mem, blockList |-> blockList, emptyOv |-> emptyBlockOverheadSize,
         mapped |-> mapped, held |-> held, acquired |-> acquired, rel |-> {}, bad |-> {}]

NoUB == [crash |-> FALSE, word |-> ZeroWord]
\* outcomes of an access outside mapped memory: a fault, or a word that reads
\* as used == 0, or a word that reads as used # 0
UBOutcomes == {[crash |-> TRUE, word |-> ZeroWord], NoUB,
               [crash |-> FALSE, word |-> <<1, 3>>]}
UBFor(h, a) == IF IsMapped(h, a) THEN {NoUB} ELSE UBOutcomes

\* the answers libhalloc_alloc may give to the block malloc(n) asks for, if any
ProviderChoices(h, n) ==
    IF h.blockList = NULL
    THEN {b \in client.bases \cup {NULL} :
              ProviderMayReturn(h, BlockPageQuantity(SizeT(InitialHeapSize)), b)}
    ELSE IF FirstBlockFor(h, n) = NULL
    THEN {b \in client.bases \cup {NULL} : ProviderMayReturn(h, BlockPageQuantity(n), b)}
    ELSE {NULL}

Without(f, S) == [x \in DOMAIN f \ S |-> f[x]]
With(f, k, v) == [x \in DOMAIN f \cup {k} |-> IF x = k THEN v ELSE f[x]]

\* the client notes that it freed p, forgetting older pointers beyond MaxFreed;
\* only a client that frees twice keeps such notes
Remember(f, p, size) ==
    IF "free2" \notin client.ops THEN f
    ELSE IF Cardinality(DOMAIN f) < MaxFreed THEN With(f, p, size)
    ELSE With(Without(f, {CHOOSE q \in DOMAIN f : TRUE}), p, size)

\* freed pointers whose region shares no byte with the region of pointer p
NotReusedBy(h, p) ==
    IF p = NULL THEN freed
    ELSE LET lo == p - SizeofMetadata
             hi == lo + SizeOf(h, lo)
         IN Without(freed, {q \in DOMAIN freed :
                                (q - SizeofMetadata) < hi
                                    /\ lo < (q - SizeofMetadata) + freed[q]})

\* the heap, the logs and the result of a call r = [h, ret, crashed]
Returned(r, c) ==
    /\ mem' = Normalise(r.h.mem)
    /\ blockList' = r.h.blockList
    /\ emptyBlockOverheadSize' = r.h.emptyOv
    /\ mapped' = r.h.mapped
    /\ held' = r.h.held
    /\ acquired' = r.h.acquired
    /\ rel' = r.h.rel
    /\ bad' = r.h.bad
    /\ ret' = r.ret
    /\ crashed' = r.crashed
    /\ call' = c
    /\ calls' = calls + 1
    /\ UNCHANGED client

\* a call of a client that is not one of the test programs
Commit(r, c) == Returned(r, c) /\ UNCHANGED var

\* The clients.  One uses the whole interface as its contract allows; one
\* also writes into what it holds; one only allocates and frees, for longer; one
\* also passes NULL, pointers it freed already and pointers it never got; one
\* allocates and frees with a request of about 4 GiB among its sizes; one
\* with requests that fill whole pages or nearly a block among its sizes; and
\* each test program of main.c is a client that makes the calls of its script,
\* and so is the program that frees every other block.  The page provider
\* places the mappings of a run at the addresses bases; the runs that only
\* allocate and free, for longer, get as many as three blocks.
SmallSizes == {SizeT(n) : n \in Sizes}
UsesInterface == [ops |-> {"malloc", "free", "realloc", "calloc"},
                  calls |-> MaxCalls, sizes |-> SmallSizes, callocs |-> CallocArgs,
                  script |-> <<>>, size |-> 0, bases |-> LowBases]
\* the same calls by a client that also stores into the memory it was given,
\* with the sizes that one block serves
StoresWords == [UsesInterface EXCEPT !.ops = @ \cup {"write"},
                                     !.sizes = {n \in SmallSizes : SzLess(n, SizeT(PAGE_SIZE))}]
Churns == [ops |-> {"malloc", "free"}, calls |-> MaxChurnCalls, sizes |-> SmallSizes,
           callocs |-> {}, script |-> <<>>, size |-> 0, bases |-> Bases]
Misuses == [ops |-> {"malloc", "free", "reallocNil", "freeNil", "free2", "freeX"},
            calls |-> MaxCalls, sizes |-> SmallSizes, callocs |-> {},
            script |-> <<>>, size |-> 0, bases |-> LowBases]
AsksTooMuch == [ops |-> {"malloc", "free", "calloc"}, calls |-> MaxChurnCalls,
                sizes |-> {SizeT(4)} \cup HugeSizes, callocs |-> HugeCallocArgs,
                script |-> <<>>, size |-> 0, bases |-> Bases]
FillsPages == [ops |-> {"malloc", "free"}, calls |-> MaxCalls,
               sizes |-> {SizeT(4)}
                             \cup {SizeT(n) : n \in PageFillingSizes \cup NearlyFittingSizes},
               callocs |-> {}, script |-> <<>>, size |-> 0, bases |-> LowBases]
\* a test program of main.c, run with the block size size
Tests == {test_malloc_free_coallesce_left, test_malloc_free_coallesce_right,
          test_malloc_free_coallesce_leftright}
RunsTest(script, size) ==
    [ops |-> {}, calls |-> 0, sizes |-> {}, callocs |-> {}, script |-> script,
     size |-> size, bases |-> LowBases]
Clients == {UsesInterface, StoresWords, Churns, Misuses, AsksTooMuch, FillsPages}
               \cup {RunsTest(t, n) : t \in Tests, n \in TestSizes}
               \cup {RunsTest(frees_every_other, n) : n \in ScatteredSizes}

\* the state of a process before its first call
Fresh ==
    /\ mem = EmptyFn
    /\ blockList = NULL
    /\ emptyBlockOverheadSize = 0
    /\ mapped = {}
    /\ held = EmptyFn
    /\ acquired = EmptyFn
    /\ live = EmptyFn
    /\ freed = EmptyFn
    /\ writes = 0
    /\ calls = 0
    /\ call = [op |-> "init", ptr |-> NULL, size |-> SizeT(0)]
    /\ ret = NULL
    /\ rel = {}
    /\ bad = {}
    /\ crashed = FALSE

Init ==
    /\ client \in Clients
    /\ var = [pc |-> IF client.script = <<>> THEN 0 ELSE 1,
              slots |-> <<NULL, NULL, NULL, NULL>>, addr |-> NULL]
    /\ Fresh

\* the head of the extent list lies in a page that is no longer mapped
Damaged == blockList # NULL /\ ~IsMapped(Heap, blockList)

MayCall(op) == ~crashed /\ ~Damaged /\ op \in client.ops /\ calls < client.calls

\* what the client holds after a call that returned q for a request of n bytes
LiveWith(l, q, n) == IF q = NULL THEN l ELSE With(l, q, n)

\* the client after an allocating call c, asking for n bytes, ended as
\* r = [h, ret, crashed]
Allocated(r, c, n) ==
    /\ Commit(r, c)
    /\ live' = LiveWith(live, r.ret, n)
    /\ freed' = NotReusedBy(r.h, r.ret)
    /\ UNCHANGED writes

\* p = malloc(n), the page provider answering mp and an access outside mapped
\* memory ending as ub
MallocWith(n, mp, ub) ==
    /\ MayCall("malloc")
    /\ Cardinality(DOMAIN live) < MaxLive
    /\ Allocated(malloc(Heap, n, mp, ub), [op |-> "malloc", ptr |-> NULL, size |-> n], n)

\* p = malloc(n)
Malloc(n) ==
    \E mp \in ProviderChoices(Heap, n) :
    \E ub \in (IF blockList = NULL /\ mp = NULL THEN UBOutcomes ELSE {NoUB}) :
        MallocWith(n, mp, ub)

\* free(p) of a live allocation
Free(p) ==
    /\ MayCall("free")
    /\ p \in DOMAIN live
    /\ Commit(free(Heap, p, NoUB), [op |-> "free", ptr |-> p, size |-> SizeT(0)])
    /\ live' = Without(live, {p})
    /\ freed' = Remember(freed, p, SizeOf(Heap, p - SizeofMetadata))
    /\ UNCHANGED writes

\* the client after realloc(p, n) of its allocation p ended as
\* r = [h, ret, crashed]
Reallocated(r, p, n) ==
    LET moved == r.ret # NULL /\ r.ret # p
    IN /\ Commit(r, [op |-> "realloc", ptr |-> p, size |-> n])
       /\ live' = IF moved THEN With(Without(live, {p}), r.ret, n)
                  ELSE IF r.ret = p THEN With(live, p, n)
                  ELSE live
       /\ freed' = IF moved
                   THEN Remember(NotReusedBy(r.h, r.ret), p,
                                 SizeOf(Heap, p - SizeofMetadata))
                   ELSE freed
       /\ UNCHANGED writes

\* q = realloc(p, n) of a live allocation p
Realloc(p, n) ==
    /\ MayCall("realloc")
    /\ p \in DOMAIN live
    /\ \E mp \in ProviderChoices(Heap, n) :
          Reallocated(realloc(Heap, p, n, mp, NoUB), p, n)

\* q = realloc(NULL, n)
ReallocNil(n) ==
    /\ MayCall("reallocNil")
    /\ Cardinality(DOMAIN live) < MaxLive
    /\ \E mp \in ProviderChoices(Heap, n) :
       \E ub \in UBFor(Heap, NULL - SizeofMetadata) :
          Allocated(realloc(Heap, NULL, n, mp, ub),
                    [op |-> "realloc", ptr |-> NULL, size |-> n], n)

\* some word of the payload of the region of pointer p, as the heap h has
\* it, is not 0 in the memory m
HeldData(m, h, p) ==
    p # NULL /\ \E a \in DOMAIN m :
                   /\ p <= a
                   /\ a < p + SizeOf(h, p - SizeofMetadata) - REGION_OVERHEAD_SIZE

\* the client after calloc(num, size) ended as r = [h, ret, crashed]; the
\* call keeps whether the payload it returns held data before the call
Calloced(r, num, size) ==
    Allocated(r, [op |-> "calloc", ptr |-> num, size |-> SizeT(size),
                  dirty |-> HeldData(mem, r.h, r.ret)],
              SzTimes(SizeT(size), num))

\* q = calloc(num, size)
Calloc(num, size) ==
    /\ MayCall("calloc")
    /\ Cardinality(DOMAIN live) < MaxLive
    /\ \E mp \in (IF size = 0 THEN {NULL}
                  ELSE ProviderChoices(Heap, SzTimes(SizeT(size), num))) :
       \E ub \in (IF size # 0 /\ blockList = NULL /\ mp = NULL
                  THEN UBOutcomes ELSE {NoUB}) :
          Calloced(calloc(Heap, num, size, mp, ub), num, size)

\* the client stores the word w at byte offset off of its allocation p
UserWrite(p, off, w) ==
    /\ ~crashed
    /\ "write" \in client.ops
    /\ writes < MaxWrites
    /\ p \in DOMAIN live
    /\ SzLess(SizeT(off + 3), live[p])
    /\ mem' = Normalise(Store(Heap, p + off, w).mem)
    /\ writes' = writes + 1
    /\ call' = [op |-> "write", ptr |-> p, size |-> SizeT(off)]
    /\ UNCHANGED <<blockList, emptyBlockOverheadSize, mapped, held, acquired, live, freed, calls,
                   client, ret, rel, bad, crashed, var>>

\* free(NULL)
FreeNil ==
    /\ MayCall("freeNil")
    /\ \E ub \in UBFor(Heap, NULL - SizeofMetadata) :
          /\ Commit(free(Heap, NULL, ub), [op |-> "free", ptr |-> NULL, size |-> SizeT(0)])
          /\ UNCHANGED <<live, freed, writes>>

\* free(p) again, of a pointer the client has freed already
DoubleFree(p) ==
    /\ MayCall("free2")
    /\ p \in DOMAIN freed
    /\ \E ub \in UBFor(Heap, p - SizeofMetadata) :
          /\ Commit(free(Heap, p, ub), [op |-> "free2", ptr |-> p, size |-> SizeT(0)])
          /\ UNCHANGED <<live, freed, writes>>

\* pointers into no mapped page
ForeignPointers == {b + o : b \in Bases, o \in ForeignOffsets}

\* free(p) of a pointer that lies in no live extent, the read of the word
\* before p ending as ub; call.size keeps the used bits that read yielded
FreeForeignWith(p, ub) ==
    /\ MayCall("freeX")
    /\ ~IsMapped(Heap, p)
    /\ ~IsMapped(Heap, p - SizeofMetadata)
    /\ Commit(free(Heap, p, ub), [op |-> "freeX", ptr |-> p, size |-> SizeT(ub.word[1])])
    /\ UNCHANGED <<live, freed, writes>>

\* free(p) of a pointer that lies in no live extent
FreeForeign(p) == \E ub \in UBOutcomes : FreeForeignWith(p, ub)

\* A public call when the head of the extent list is unmapped: malloc reads
\* its usedSize, free and realloc read the header of their pointer or the
\* size of the head, and the read faults.
Fault ==
    /\ ~crashed
    /\ Damaged
    /\ calls < client.calls
    /\ crashed' = TRUE
    /\ bad' = {blockList + BhUsedSizeOff}
    /\ rel' = {}
    /\ ret' = NULL
    /\ call' = [op |-> "fault", ptr |-> NULL, size |-> SizeT(0)]
    /\ calls' = calls + 1
    /\ UNCHANGED <<mem, blockList, emptyBlockOverheadSize, mapped, held, acquired, live, freed,
                   writes, client, var>>

(***************************************************************************)
(* The steps of the test programs                                          *)
(***************************************************************************)
\* the test is at a statement op
At(op) ==
    /\ ~crashed
    /\ var.pc \in DOMAIN client.script
    /\ client.script[var.pc].op = op

Slot == var.slots[client.script[var.pc].slot + 1]
Bytes == client.size * client.script[var.pc].mult

\* the test goes on with its next statement
Goes(v) == [v EXCEPT !.pc = @ + 1]
\* the test goes on if ok, and ends if not
GoesIf(ok) == var' = IF ok THEN Goes(var) ELSE [var EXCEPT !.pc = 0]

\* var[slot] = malloc(size * mult) ended as r = [h, ret, crashed]
TestMalloced(r) ==
    /\ Returned(r, [op |-> "malloc", ptr |-> NULL, size |-> SizeT(Bytes)])
    /\ live' = LiveWith(live, r.ret, SizeT(Bytes))
    /\ var' = Goes([var EXCEPT !.slots[client.script[var.pc].slot + 1] = r.ret])
    /\ UNCHANGED <<freed, writes>>

TestMalloc ==
    /\ At("malloc")
    /\ \E mp \in ProviderChoices(Heap, SizeT(Bytes)) :
       \E ub \in (IF blockList = NULL /\ mp = NULL THEN UBOutcomes ELSE {NoUB}) :
          TestMalloced(malloc(Heap, SizeT(Bytes), mp, ub))

TestAssert ==
    /\ At("assert")
    /\ GoesIf(\A i \in 1..client.script[var.pc].slot :
                  var.slots[i] # NULL /\ var.slots[i] % 16 = 0)
    /\ UNCHANGED <<mem, blockList, emptyBlockOverheadSize, mapped, held, acquired, live, freed,
                   writes, calls, client, call, ret, rel, bad, crashed>>

\* memset(var[slot], 0, size * mult); through a pointer outside mapped memory
\* the behaviour is undefined: the write faults or is not seen
TestMemset ==
    /\ At("memset")
    /\ IF IsMapped(Heap, Slot)
       THEN /\ mem' = Normalise(memsetZero(Heap, Slot, Bytes).mem)
            /\ UNCHANGED crashed
       ELSE /\ crashed' \in BOOLEAN
            /\ UNCHANGED mem
    /\ var' = Goes(var)
    /\ UNCHANGED <<blockList, emptyBlockOverheadSize, mapped, held, acquired, live, freed,
                   writes, calls, client, call, ret, rel, bad>>

TestNote ==
    /\ At("note")
    /\ var' = Goes([var EXCEPT !.addr = Slot])
    /\ UNCHANGED <<mem, blockList, emptyBlockOverheadSize, mapped, held, acquired, live, freed,
                   writes, calls, client, call, ret, rel, bad, crashed>>

TestFree ==
    /\ At("free")
    /\ \E ub \in UBFor(Heap, Slot - SizeofMetadata) :
          Returned(free(Heap, Slot, ub), [op |-> "free", ptr |-> Slot, size |-> SizeT(0)])
    /\ live' = Without(live, {Slot})
    /\ var' = Goes(var)
    /\ UNCHANGED <<freed, writes>>

TestExpect ==
    /\ At("expect")
    /\ GoesIf(var.addr = Slot)
    /\ UNCHANGED <<mem, blockList, emptyBlockOverheadSize, mapped, held, acquired, live, freed,
                   writes, calls, client, call, ret, rel, bad, crashed>>

Next ==
    \/ \E n \in client.sizes : Malloc(n)
    \/ \E p \in DOMAIN live : Free(p)
    \/ \E p \in DOMAIN live, n \in client.sizes : Realloc(p, n)
    \/ \E n \in client.sizes : ReallocNil(n)
    \/ \E a \in client.callocs : Calloc(a[1], a[2])
    \/ \E p \in DOMAIN live, off \in UserOffsets, w \in UserWords : UserWrite(p, off, w)
    \/ FreeNil
    \/ \E p \in DOMAIN freed : DoubleFree(p)
    \/ \E p \in ForeignPointers : FreeForeign(p)
    \/ Fault
    \/ TestMalloc
    \/ TestAssert
    \/ TestMemset
    \/ TestNote
    \/ TestFree
    \/ TestExpect

Spec == Init /\ [][Next]_vars

(***************************************************************************)
(* Properties                                                              *)
(***************************************************************************)
\* the requested range [p, p + n) of the live allocation p ends at or
\* before the address hi
EndsBy(p, hi) == live[p][1] = 0 /\ p + live[p][2] <= hi

\* one past the last byte of the live extent at b
ExtentEnd(b) == b + held[b] * PAGE_SIZE

\* a step that is a public call
IsCall == calls' = calls + 1

\* The byte ranges <<lo, hi>> that hold the allocator's own data: every
\* extent header, the header and footer words of every allocated region (the
\* client's and each extent's bookkeeping region) and the header and the
\* footer of every free region.
MetadataRanges ==
    LET h == Heap
        blocks == SeqToSet(BlockSeq(h))
        ends(r) == {<<r, r + SizeofMetadata>>,
                    <<r + SizeOf(h, r) - SizeofMetadata, r + SizeOf(h, r)>>}
        nodes == UNION {SeqToSet(FreeNodes(h, b)) : b \in blocks}
    IN {<<b, b + SizeofBlockHeader>> : b \in blocks}
       \cup UNION {ends(b + SizeofBlockHeader) : b \in blocks}
       \cup UNION {ends(p - SizeofMetadata) : p \in DOMAIN live}
       \cup UNION {ends(f) \cup {<<f, f + SizeofFreeRegionHeader>>} : f \in nodes}

\* C1: the requested byte ranges [p, p + n) of the live allocations are
\* pairwise disjoint, each lies wholly inside one live extent, and none shares
\* a byte with an extent header or with a header or footer of a region.
C1_Isolation ==
    \A p \in DOMAIN live :
        /\ \E b \in DOMAIN held : b <= p /\ EndsBy(p, ExtentEnd(b))
        /\ \A q \in DOMAIN live \ {p} : EndsBy(p, q) \/ EndsBy(q, p)
        /\ \A m \in MetadataRanges : EndsBy(p, m[1]) \/ m[2] <= p

\* C2: every pointer malloc, realloc or calloc returns that is not NULL is a
\* multiple of 16 (the page provider returns page-aligned mappings).
C2_Alignment ==
    (call.op \in {"malloc", "realloc", "calloc"} /\ ret # NULL) => ret % 16 = 0

\* realloc moved an allocation while other allocations were live
C2_Witness ==
    /\ call.op = "realloc"
    /\ call.ptr # NULL
    /\ ret \notin {NULL, call.ptr}
    /\ Cardinality(DOMAIN live) >= 2

\* C3: an extent goes back to the page provider only when no live allocation
\* lies inside it: no pointer the client still holds after a call lies in an
\* extent that was live before the call and is released after it.
C3_ReleaseOnlyEmpty ==
    [][IsCall => \A b \in DOMAIN held \ DOMAIN held' : \A p \in DOMAIN live' :
                     ~(b <= p /\ p < ExtentEnd(b))]_vars

\* the payload words of allocation q, requested with m bytes, are the same
\* before and after the step
PayloadKept(q, m) ==
    \A a \in DOMAIN mem \cup DOMAIN mem' :
        (q <= a /\ SzLess(SizeT(a - q), m)) =>
            (IF a \in DOMAIN mem THEN mem[a] ELSE ZeroWord)
                = (IF a \in DOMAIN mem' THEN mem'[a] ELSE ZeroWord)

\* C4: a public call changes no payload byte [q, q + m) of a live allocation
\* q, requested with m bytes, other than the one it creates or frees.
C4_PayloadFrame ==
    [][IsCall => \A q \in DOMAIN live \cap DOMAIN live' : PayloadKept(q, live[q])]_vars

\* C5: whenever the client that only calls malloc and free holds no
\* allocation, the extent list is empty and every extent acquired from the
\* page provider has been released.
C5_ExtentDrain ==
    (client = Churns /\ ~crashed /\ DOMAIN live = {})
        => (blockList = NULL /\ DOMAIN held = {} /\ mapped = {})

\* malloc(n) has to ask the page provider for an extent
NeedsExtent(n) == blockList = NULL \/ FirstBlockFor(Heap, n) = NULL

\* C6: when the page provider fails during malloc, on the empty-list path or
\* on the new-extent path, malloc returns NULL without an access through the
\* missing extent, and the extent list and the live extents stay as they were.
C6_ProviderFailure ==
    [][\A n \in client.sizes : \A ub \in UBOutcomes :
          (NeedsExtent(n) /\ MallocWith(n, NULL, ub))
              => /\ ret' = NULL
                 /\ bad' = {}
                 /\ ~crashed'
                 /\ UNCHANGED <<mem, blockList, mapped, held>>]_vars

\* C7: free(NULL) reads no memory and leaves the extent list, the free lists
\* and every usedSize unchanged.
C7_FreeNil ==
    [][FreeNil => /\ bad' = {}
                  /\ ~crashed'
                  /\ UNCHANGED <<mem, blockList, emptyBlockOverheadSize, mapped, held>>]_vars

\* C8: free(p) of a pointer freed already, its memory not reused since, is a
\* no-op in every state, also when the first free coalesced the region or
\* released its extent: it reads memory of live extents only and leaves the
\* extent list, the free lists and every usedSize unchanged.
C8_DoubleFree ==
    [][(\E p \in DOMAIN freed : DoubleFree(p))
          => /\ bad' = {}
             /\ ~crashed'
             /\ UNCHANGED <<mem, blockList, emptyBlockOverheadSize, mapped, held>>]_vars

\* C9: free(p) of a pointer in no live extent, the word before it not reading
\* as used == 0, leaves the extent list, the free lists and every usedSize
\* unchanged and releases no extent.
C9_ForeignFree ==
    [][\A p \in ForeignPointers : \A ub \in UBOutcomes :
          (~ub.crash /\ ub.word[1] # 0 /\ FreeForeignWith(p, ub))
              => /\ rel' = {}
                 /\ UNCHANGED <<mem, blockList, emptyBlockOverheadSize, mapped, held>>]_vars

\* free of a foreign pointer whose header read as used # 0 returned, with
\* extents and allocations live
C9_Witness ==
    /\ call.op = "freeX"
    /\ call.size # SizeT(0)
    /\ ~crashed
    /\ blockList # NULL
    /\ DOMAIN live # {}

\* C10: realloc(NULL, n) reads no memory through the NULL pointer, and returns
\* what malloc(n) returns from the same state and leaves the heap malloc(n)
\* leaves.
C10_ReallocNil ==
    [][\A n \in client.sizes :
          ReallocNil(n)
              => /\ (NULL - SizeofMetadata) \notin bad'
                 /\ \E mp \in ProviderChoices(Heap, n) : \E ub \in UBOutcomes :
                       LET r == malloc(Heap, n, mp, ub)
                       IN /\ ret' = r.ret
                          /\ crashed' = r.crashed
                          /\ mem' = Normalise(r.h.mem)
                          /\ blockList' = r.h.blockList
                          /\ emptyBlockOverheadSize' = r.h.emptyOv
                          /\ mapped' = r.h.mapped
                          /\ held' = r.h.held]_vars

\* the word at address a of the memory m
WordAt(m, a) == IF a \in DOMAIN m THEN m[a] ELSE ZeroWord

\* the payload length of the region of pointer p: its size without header
\* and footer
PayloadLength(p) == SizeOf(Heap, p - SizeofMetadata) - REGION_OVERHEAD_SIZE

\* the first len bytes (len a multiple of 4) at q after the step are the
\* first len bytes at p before it
SameBytes(p, q, len) ==
    \A o \in {a - p : a \in {x \in DOMAIN mem : p <= x /\ x < p + len}}
                 \cup {a - q : a \in {x \in DOMAIN mem' : q <= x /\ x < q + len}} :
        WordAt(mem', q + o) = WordAt(mem, p + o)

\* the word before p is not the header of a used region: it reads used == 0,
\* or its extent went back to the page provider
NotUsedAfter(p) ==
    ~IsMapped(Heap', p - SizeofMetadata) \/ WordAt(mem', p - SizeofMetadata)[1] = 0

\* the step is the call realloc(p, n)
IsReallocOf(p, n) == IsCall /\ call' = [op |-> "realloc", ptr |-> p, size |-> n]

\* C11: a successful realloc(p, n) of a live allocation p whose payload
\* length L differs from n returns a pointer q # p to a used region whose
\* first min(n, L) bytes are the first min(n, L) bytes p held before the
\* call, and afterwards the region of p is no longer a used region.
C11_ReallocMoves ==
    [][\A p \in DOMAIN live : \A n \in client.sizes :
          (IsReallocOf(p, n) /\ SizeT(PayloadLength(p)) # n /\ ret' # NULL)
              => /\ ret' # p
                 /\ ~crashed'
                 /\ IsMapped(Heap', ret' - SizeofMetadata)
                 /\ WordAt(mem', ret' - SizeofMetadata)[1] = 1
                 /\ SameBytes(p, ret', IF SzLess(n, SizeT(PayloadLength(p)))
                                       THEN Narrow(n) ELSE PayloadLength(p))
                 /\ NotUsedAfter(p)]_vars

\* realloc moved an allocation whose first word the client had overwritten,
\* and the word is at the new place
C11_Witness ==
    /\ call.op = "realloc"
    /\ call.ptr # NULL
    /\ ret \notin {NULL, call.ptr}
    /\ ~crashed
    /\ WordAt(mem, ret) \in UserWords

\* the words of [lo, hi) are the same before and after the step
SameWords(lo, hi) ==
    \A a \in {x \in DOMAIN mem \cup DOMAIN mem' : lo <= x /\ x < hi} :
        WordAt(mem', a) = WordAt(mem, a)

\* C12: when the allocation inside realloc(p, n) fails, realloc returns NULL
\* and the region of p is as it was: a used region with the same header,
\* footer, size and payload bytes, in an extent that is still live and whose
\* usedSize is what it was.
C12_ReallocFailure ==
    [][\A p \in DOMAIN live : \A n \in client.sizes :
          (IsReallocOf(p, n) /\ SizeT(PayloadLength(p)) # n /\ ret' = NULL)
              => LET region == p - SizeofMetadata
                     block == getBlockWithRegion(Heap, p)
                 IN /\ ~crashed'
                    /\ bad' = {}
                    /\ p \in DOMAIN live'
                    /\ WordAt(mem, region)[1] = 1
                    /\ SameWords(region, region + SizeOf(Heap, region))
                    /\ WordAt(mem', region + SizeOf(Heap, region) - SizeofMetadata)
                           = WordAt(mem', region)
                    /\ block # NULL
                    /\ block \in DOMAIN held'
                    /\ getBlockWithRegion(Heap', p) = block
                    /\ SameWords(block + BhUsedSizeOff, block + BhUsedSizeOff + 4)]_vars

\* realloc of a live allocation returned NULL
C12_Witness ==
    /\ call.op = "realloc"
    /\ call.ptr \in DOMAIN live
    /\ ret = NULL
    /\ ~crashed

\* C13: every byte of the payload of the region calloc(num, size) returns,
\* the region without its header and footer, is 0, also when the region
\* reuses memory that held data, and the payload has at least num * size
\* bytes.
C13_CallocZero ==
    (call.op = "calloc" /\ ret # NULL /\ ~crashed)
        => LET len == PayloadLength(ret)
           IN /\ \A a \in DOMAIN mem : ~(ret <= a /\ a < ret + len)
              /\ ~SzLess(SizeT(len), SzTimes(call.size, call.ptr))

\* the slots of var[] the test has freed
FreedSlots ==
    {client.script[k].slot + 1 :
        k \in {j \in 1..(var.pc - 1) : client.script[j].op = "free"}}

\* the blocks the test freed form one free region that starts at the lowest
\* of them, the one whose address the test noted in addr
FreedAreMerged ==
    LET f == var.addr - SizeofMetadata
        block == getBlockWithRegion(Heap, var.addr)
    IN /\ block # NULL
       /\ \A n \in SeqToSet(FreeNodes(Heap, block)) :
             (f <= n /\ n < f + SizeOf(Heap, f)) <=> n = f
       /\ Used(Heap, f) = 0
       /\ \A i \in FreedSlots :
             var.addr <= var.slots[i]
                 /\ var.slots[i] + client.size + SizeofMetadata <= f + SizeOf(Heap, f)

\* the test is about to allocate the 2 or 3 blocks it freed as one
AtReuse == At("malloc") /\ client.script[var.pc].mult > 1

\* C14 as stated, for every block size s: in the three tests of main.c, when
\* the adjacent blocks are freed they form one free region that starts at the
\* lowest of them, and the malloc(2s) (malloc(3s)) that follows returns the
\* address of that lowest block.
C14_CoalesceReuse ==
    /\ AtReuse => FreedAreMerged
    /\ At("expect") => Slot = var.addr

\* C14 amended: the freed blocks form one free region that starts at the
\* lowest of them for every block size s; the malloc that follows returns the
\* address of that block for the sizes main runs the tests with, 64 and 4096.
C14_CoalesceReuseTested ==
    /\ AtReuse => FreedAreMerged
    /\ (At("expect") /\ client.size \in TestedSizes) => Slot = var.addr

\* the test that frees three adjacent blocks got their memory back as one
\* allocation at the lowest of them
C14_Witness ==
    /\ At("expect")
    /\ client.script = test_malloc_free_coallesce_leftright
    /\ client.size \in TestedSizes
    /\ Cardinality(FreedSlots) = 3
    /\ Slot = var.addr

\* The regions of the live extent at b, by their headers: the bookkeeping
\* region behind the extent header, the region of every allocation the client
\* holds in the extent, and every region in a free list of the extent.
RegionsOf(b) ==
    {b + SizeofBlockHeader}
        \cup {p - SizeofMetadata : p \in {q \in DOMAIN live : b <= q /\ q < ExtentEnd(b)}}
        \cup SeqToSet(FreeNodes(Heap, b))

FooterOf(r) == r + SizeOf(Heap, r) - SizeofMetadata

\* C15: after any public call, for every region, used or free, of every live
\* extent, the header and the footer at header + size - 4 hold the same used
\* flag and the same size.
C15_HeaderFooter ==
    ~crashed => \A b \in DOMAIN held : \A r \in RegionsOf(b) :
                    Load(Heap, FooterOf(r)) = Load(Heap, r)

\* a free left a free region between used regions, and another free region
\* is in the extent
C15_Witness ==
    /\ call.op = "free"
    /\ ~crashed
    /\ \E b \in DOMAIN held :
          /\ Cardinality(SeqToSet(FreeNodes(Heap, b))) >= 2
          /\ \E p \in DOMAIN live : b <= p /\ p < ExtentEnd(b)

\* C16: after any public call no two address-adjacent regions of a live
\* extent are both free: no region in a free list ends where another region
\* in a free list of the same extent begins.
C16_NoAdjacentFree ==
    ~crashed => \A b \in DOMAIN held :
                    LET nodes == SeqToSet(FreeNodes(Heap, b))
                    IN \A f \in nodes : (f + SizeOf(Heap, f)) \notin nodes

\* the test that frees the middle block, then its left and its right
\* neighbour has made its three calls of free, and more than the free region
\* they became is live in the extent
C16_Witness ==
    /\ AtReuse
    /\ client.script[var.pc].mult = 3
    /\ Cardinality(FreedSlots) = 3
    /\ DOMAIN live # {}
    /\ \E b \in DOMAIN held : (var.addr - SizeofMetadata) \in SeqToSet(FreeNodes(Heap, b))

\* one past the last byte of the extent at b, by the size its header holds
BlockEnd(b) == b + LoadU32(Heap, b + BhSizeOff)

\* from the address a on, the extent at b is one region after the other, each
\* a used region or a region in a free list, up to the end of the extent
RECURSIVE TiledFrom(_, _)
TiledFrom(b, a) ==
    IF a = BlockEnd(b) THEN TRUE
    ELSE IF a > BlockEnd(b) \/ a \notin RegionsOf(b) \/ SizeOf(Heap, a) = 0 THEN FALSE
    ELSE TiledFrom(b, a + SizeOf(Heap, a))

\* C17: after any public call every byte of every live extent behind the
\* extent header belongs to exactly one region: the regions, each used or in
\* a free list, follow one another by their size fields from the end of the
\* extent header to the end of the extent, without gap or overlap.
C17_Tiling ==
    ~crashed => \A b \in DOMAIN held :
                    /\ BlockEnd(b) = ExtentEnd(b)
                    /\ TiledFrom(b, b + SizeofBlockHeader)

\* the region the step's call returned was in a free list before the call
TakenFromList ==
    \E b \in DOMAIN held : (ret' - SizeofMetadata) \in SeqToSet(FreeNodes(Heap, b))

\* what the step's call left of the free region it took: the address and the
\* size of the remainder
RemainderAddr == (ret' - SizeofMetadata) + SizeOf(Heap', ret' - SizeofMetadata)
RemainderSize == SizeOf(Heap, ret' - SizeofMetadata) - SizeOf(Heap', ret' - SizeofMetadata)

\* C18: whenever malloc takes a free region that Block_canAllocateSize chose,
\* the remainder, the size of the region less the aligned size, is at least
\* the minimum size of a free region, and is a region in a free list of the
\* extent when malloc returns.
C18_SplitRemainder ==
    [][(IsCall /\ call'.op = "malloc" /\ ret' # NULL /\ ~crashed' /\ TakenFromList)
          => /\ RemainderSize >= FreeRegionMinimumSize
             /\ \E b \in DOMAIN held' : RemainderAddr \in SeqToSet(FreeNodes(Heap', b))]_vars

\* C19: with a client that writes only inside the payloads it holds, the
\* test of newFree->metadata.used in FreeRegion_split never finds used == 1:
\* whenever malloc takes a region from a free list, the word at the address of
\* the remainder does not read used == 1, and the remainder is left out of
\* the free lists only when it is smaller than the minimum free region.
C19_NoCollision ==
    [][(IsCall /\ call'.op = "malloc" /\ ret' # NULL /\ ~crashed' /\ TakenFromList)
          => /\ WordAt(mem, RemainderAddr)[1] # 1
             /\ \/ RemainderSize < FreeRegionMinimumSize
                \/ \E b \in DOMAIN held' :
                      RemainderAddr \in SeqToSet(FreeNodes(Heap', b))]_vars

\* C20: when the extent list is not empty, no extent of the list can serve
\* malloc(n) and the page provider succeeds, malloc(n) creates one new extent,
\* large enough for the request, and returns a pointer that is not NULL to n
\* bytes inside the new extent, also when n plus the overhead of the creation
\* is an exact multiple of the page size.
C20_NewExtent ==
    [][\A n \in client.sizes : \A mp \in Bases :
          (blockList # NULL /\ FirstBlockFor(Heap, n) = NULL /\ MallocWith(n, mp, NoUB))
              => /\ ret' # NULL
                 /\ mp \notin DOMAIN held
                 /\ DOMAIN held' = DOMAIN held \cup {mp}
                 /\ mp <= ret'
                 /\ ~SzLess(SizeT(held'[mp] * PAGE_SIZE), SzAdd(n, ret' - mp))]_vars


\* C21: a malloc(n) that finds the block list empty and gets memory from the
\* page provider creates a block of at least 4 pages, large enough for n bytes,
\* and returns a pointer that is not NULL with its n bytes inside that block
IsMallocCall == IsCall /\ call'.op = "malloc"
C21_InitialExtent ==
    [][(IsMallocCall /\ blockList = NULL /\ DOMAIN held' # DOMAIN held)
           => \E b \in DOMAIN held' \ DOMAIN held :
                  /\ held'[b] * PAGE_SIZE >= InitialHeapSize
                  /\ ret' # NULL
                  /\ b <= ret'
                  /\ ~SzLess(SizeT(held'[b] * PAGE_SIZE),
                             SzAdd(call'.size, ret' - b))]_vars

\* what a request of n bytes needs of a region, header and footer included
Need(n) == SzAdd(n, REGION_OVERHEAD_SIZE)
\* block b has a free region strictly larger than the aligned size of need
HasRegionFor(b, need) ==
    \E r \in SeqToSet(FreeNodes(Heap, b)) :
        SzLess(FreeRegion_getSizeForAlignment(r, need), SizeT(SizeOf(Heap, r)))
\* the blocks of the list that have such a region, in list order
BlocksFor(need) == SelectSeq(BlockSeq(Heap), LAMBDA b : HasRegionFor(b, need))

\* C22: when some block of the list has a free region strictly larger than
\* the aligned size of n + 8, malloc(n) returns a pointer that is not NULL
\* inside the first such block and creates no block; and whenever the search
\* of getBlockWithFreeRegion finds a block, malloc does not return NULL
C22_SearchMatchesAllocation ==
    [][(IsMallocCall /\ blockList # NULL)
           => /\ BlocksFor(Need(call'.size)) # <<>>
                  => /\ ret' # NULL
                     /\ getBlockWithRegion(Heap', ret') = Head(BlocksFor(Need(call'.size)))
                     /\ DOMAIN held' = DOMAIN held
              /\ FirstBlockFor(Heap, call'.size) \notin {NULL, -1} => ret' # NULL]_vars

\* the free list of class i of block b, in link order
ClassList(b, i) == Walk(Heap, LoadPtr(Heap, FreeListHeadAddr(b, i)), FrNextOff)
\* the positions <<i, k>> of the free regions of block b: the k-th of class i
Positions(b) ==
    UNION {{<<i, k>> : k \in 1..Len(ClassList(b, i))} : i \in 0..(FREE_BLOCKS_SETS - 1)}
Before(x, y) == x[1] < y[1] \/ (x[1] = y[1] /\ x[2] < y[2])
\* the free region r is strictly larger than the aligned size of need
Fits(r, need) ==
    SzLess(FreeRegion_getSizeForAlignment(r, need), SizeT(SizeOf(Heap, r)))
\* the values of the uint32_t parameter of Block_canAllocateSize that the
\* calls of the client lead to
ProbedNeeds ==
    {U32(Need(n)) : n \in client.sizes \cup {SizeT(client.size * k) : k \in 1..2}}

\* C23: Block_canAllocateSize(b, need) is the first free region of b, the
\* classes taken from 0 to 5 and each class list in link order, that is
\* strictly larger than the aligned size of need, and it is NULL exactly when
\* no free region of b is
C23_CanAllocate ==
    ~crashed =>
        \A b \in SeqToSet(BlockSeq(Heap)) : \A need \in ProbedNeeds :
            LET r == Block_canAllocateSize(Heap, b, need)
                lists == [i \in 0..(FREE_BLOCKS_SETS - 1) |-> ClassList(b, i)]
                at(x) == lists[x[1]][x[2]]
                fitting == {x \in Positions(b) : Fits(at(x), need)}
            IN /\ r = NULL <=> fitting = {}
               /\ r # NULL =>
                      \E x \in fitting :
                          /\ at(x) = r
                          /\ \A y \in fitting : ~Before(y, x)
\* a block has free regions in two classes and, for some need, the first of
\* them is passed over for a later one; for another need there is none
C23_Witness ==
    /\ ~crashed
    /\ \E b \in SeqToSet(BlockSeq(Heap)) :
           /\ \E need \in ProbedNeeds :
                  LET r == Block_canAllocateSize(Heap, b, need)
                  IN r # NULL /\ r # Head(FreeNodes(Heap, b))
           /\ \E need \in ProbedNeeds : Block_canAllocateSize(Heap, b, need) = NULL

\* the addresses FreeRegion_getSizeForAlignment is called with in block b:
\* the region Block_create lays out after the block header, and the free
\* regions of the block
AlignedFrom(b) == {b + SizeofBlockHeader} \cup SeqToSet(FreeNodes(Heap, b))
\* the sizes it is called with: those the client's requests lead to, and
\* 0, and every size around the minimum size of a free region, one of each
\* remainder modulo 16 among them
AlignedSizes ==
    ProbedNeeds \cup {SizeT(0)}
        \cup {SizeT(k) : k \in (FreeRegionMinimumSize - 2)..(FreeRegionMinimumSize + 15)}
\* the reference: m is the larger of need and the minimum size of a free region
AlignM(need) ==
    IF SzLess(need, SizeT(FreeRegionMinimumSize)) THEN SizeT(FreeRegionMinimumSize)
    ELSE need

\* C24: FreeRegion_getSizeForAlignment(region, need) is m + pad, with m the
\* larger of need and sizeof(FreeRegionHeader_t) + sizeof(AllocMetadata_t) and
\* pad in 1..16 such that region + m + pad + sizeof(AllocMetadata_t) is a
\* multiple of 16 (16 divides 2^30); the result is never smaller than m
C24_AlignedSize ==
    ~crashed =>
        \A b \in DOMAIN held : \A r \in AlignedFrom(b) : \A need \in AlignedSizes :
            LET size == FreeRegion_getSizeForAlignment(r, need)
                m == AlignM(need)
                pad == (size[1] - m[1]) * Limb + size[2] - m[2]
            IN /\ pad \in 1..16
               /\ (r + m[2] + pad + SizeofMetadata) % 16 = 0
               /\ ~SzLess(size, m)
               /\ ~SzLess(size, need)
\* a block holds a region for which a need below the minimum is padded up to
\* it and a need above it gets a padding of 16 bytes
C24_Witness ==
    /\ ~crashed
    /\ \E b \in DOMAIN held : \E r \in AlignedFrom(b) \ {b + SizeofBlockHeader} :
           /\ \E need \in AlignedSizes :
                  /\ SzLess(need, SizeT(FreeRegionMinimumSize))
                  /\ SzLess(SizeT(FreeRegionMinimumSize), FreeRegion_getSizeForAlignment(r, need))
           /\ \E need \in AlignedSizes :
                  /\ SzLess(SizeT(FreeRegionMinimumSize), need)
                  /\ FreeRegion_getSizeForAlignment(r, need) = SzAdd(need, 16)

\* the used regions of block b: the region createHeapBlock allocates for
\* alignment, and the regions of the pointers the client holds in b
UsedRegionsOf(b) ==
    {b + SizeofBlockHeader}
        \cup {p - SizeofMetadata : p \in {q \in DOMAIN live : b <= q /\ q < BlockEnd(b)}}
RECURSIVE SumOfSizes(_)
SumOfSizes(S) ==
    IF S = {} THEN 0
    ELSE LET r == CHOOSE x \in S : TRUE
         IN SizeOf(Heap, r) + SumOfSizes(S \ {r})

\* C25: after any public call, usedSize of every block the process holds is
\* sizeof(BlockHeader_t) plus the sizes of its used regions, the region for
\* alignment included, and it exceeds emptyBlockOverheadSize exactly when the
\* block holds a live user allocation
C25_UsedSize ==
    ~crashed =>
        \A b \in DOMAIN held :
            /\ LoadU32(Heap, b + BhUsedSizeOff)
                   = SizeofBlockHeader + SumOfSizes(UsedRegionsOf(b))
            /\ Block_haveUserAllocations(Heap, b) = 1
                   <=> UsedRegionsOf(b) # {b + SizeofBlockHeader}
\* a block holds two user allocations, and another block of the list holds none
C25_Witness ==
    /\ ~crashed
    /\ \E b \in DOMAIN held : Cardinality(UsedRegionsOf(b)) >= 3
    /\ \E b \in DOMAIN held :
           /\ UsedRegionsOf(b) = {b + SizeofBlockHeader}
           /\ b \in SeqToSet(BlockSeq(Heap))

\* the regions of block b found by going from region to region by the size in
\* the header, from address a on, until the end of the block or a size of 0
RECURSIVE TilesFrom(_, _)
TilesFrom(b, a) ==
    IF a >= BlockEnd(b) \/ SizeOf(Heap, a) = 0 THEN {}
    ELSE {a} \cup TilesFrom(b, a + SizeOf(Heap, a))
\* how many times the free lists of block b reach region r
Reached(b, r) ==
    LET nodes == FreeNodes(Heap, b)
    IN Cardinality({i \in DOMAIN nodes : nodes[i] = r})
\* the regions r and s share a byte
Overlap(r, s) == r < s + SizeOf(Heap, s) /\ s < r + SizeOf(Heap, r)

\* C26: after any public call, a region of a block the process holds is
\* reached from exactly one free-list head of the block if and only if its
\* used flag is 0 and its size is at least the minimum size of a free region;
\* no used region is reached, and no region inside another one is
C26_FreeListMembership ==
    ~crashed =>
        \A b \in DOMAIN held :
            LET listed == SeqToSet(FreeNodes(Heap, b))
            IN /\ \A r \in TilesFrom(b, b + SizeofBlockHeader) \cup listed \cup UsedRegionsOf(b) :
                      /\ Reached(b, r) <= 1
                      /\ Reached(b, r) = 1
                             <=> (Used(Heap, r) = 0 /\ SizeOf(Heap, r) >= FreeRegionMinimumSize)
               /\ listed \cap UsedRegionsOf(b) = {}
               /\ \A r \in listed : \A s \in (listed \cup UsedRegionsOf(b)) \ {r} :
                      ~Overlap(r, s)
\* a test has freed two adjacent blocks: the free lists of the block reach the
\* merged region and the rest of the block, the region of the other freed
\* block lies inside the merged one and is not reached, and the test still
\* holds an allocation
C26_Witness ==
    /\ AtReuse
    /\ Cardinality(FreedSlots) = 2
    /\ DOMAIN live # {}
    /\ \E b \in DOMAIN held :
           LET listed == SeqToSet(FreeNodes(Heap, b))
           IN /\ Cardinality(listed) >= 2
              /\ listed \subseteq TilesFrom(b, b + SizeofBlockHeader)
              /\ (var.addr - SizeofMetadata) \in listed
              /\ \E i \in FreedSlots :
                     /\ (var.slots[i] - SizeofMetadata) \notin listed
                     /\ Overlap(var.slots[i] - SizeofMetadata, var.addr - SizeofMetadata)

\* C27: after any public call, the block list is in strictly ascending order
\* of block address, wherever the page provider placed the blocks and however
\* many there are
C27_ListSorted ==
    ~crashed =>
        LET blocks == BlockSeq(Heap)
        IN \A i \in 1..(Len(blocks) - 1) : blocks[i] < blocks[i + 1]

\* C28: after any public call, every free list of a block the process holds
\* is a consistent doubly-linked list: previous of its head is NULL, and
\* previous of the node that follows a node x is x
C28_FreeListLinks ==
    ~crashed =>
        \A b \in DOMAIN held : \A i \in 0..(FREE_BLOCKS_SETS - 1) :
            LET l == ClassList(b, i)
            IN /\ l # <<>> => LoadPtr(Heap, l[1] + FrPrevOff) = NULL
               /\ \A k \in 1..(Len(l) - 1) : LoadPtr(Heap, l[k + 1] + FrPrevOff) = l[k]

\* the size createHeapBlock is called with by a malloc that creates a block
RequestedBytes == IF blockList = NULL THEN SizeT(InitialHeapSize) ELSE call'.size
\* pages * PAGE_SIZE as a size_t (PAGE_SIZE divides 2^30)
PagesBytes(pages) ==
    <<pages \div (Limb \div PAGE_SIZE), (pages % (Limb \div PAGE_SIZE)) * PAGE_SIZE>>
\* in heap h, the block at b is as createHeapBlock(size) leaves it
LaidOut(h, b, size) ==
    LET memorySize == SzAdd(size, SizeofBlockHeader + SizeofFreeRegionHeader + SizeofMetadata)
        pages == LoadU32(h, b + BhPagesOff)
        first == b + SizeofBlockHeader
        rest == first + SizeOf(h, first)
    IN /\ pages > 0
       /\ ~SzLess(PagesBytes(pages), memorySize)
       /\ SzLess(PagesBytes(pages - 1), memorySize)
       /\ SizeT(LoadU32(h, b + BhSizeOff)) = PagesBytes(pages)
       /\ Used(h, first) = 1
       /\ SizeOf(h, first) > 0
       /\ FreeNodes(h, b) = <<rest>>
       /\ LoadPtr(h, FreeListHeadAddr(b, LARGE_FREE_BLOCK_INDEX)) = rest
       /\ Used(h, rest) = 0
       /\ SizeT(rest - b + SizeOf(h, rest)) = PagesBytes(pages)
       /\ LoadU32(h, b + BhUsedSizeOff) = SizeofBlockHeader + SizeOf(h, first)

\* C29: right after createHeapBlock(size) the block has
\* pages = ceil((size + 108) / PAGE_SIZE), size = pages * PAGE_SIZE, one used
\* region behind the block header, one free region over all the rest, linked
\* in freeRegions[5] with the other heads NULL, and usedSize = the block
\* header plus the used region
C29_CreatedExtent ==
    [][(IsMallocCall /\ ~crashed')
           => \A b \in DOMAIN held' \ DOMAIN held :
                  LaidOut(createHeapBlock(Heap, RequestedBytes, b).h, b, RequestedBytes)]_vars

TimesListed(b) ==
    LET blocks == BlockSeq(Heap)
    IN Cardinality({k \in DOMAIN blocks : blocks[k] = b})
\* the extents libhalloc_alloc returned and libhalloc_free was not called
\* with whose pages hold the address p
Enclosing(p) ==
    {b \in DOMAIN acquired :
         b <= p /\ p \div PAGE_SIZE < b \div PAGE_SIZE + acquired[b]}

\* C31: after any public call, following the next links from blockList reads
\* mapped block headers only and reaches every extent that was acquired from
\* the page provider and not released exactly once, and getBlockWithRegion(p)
\* is the extent that encloses p for every pointer p the client holds
C31_ExtentsListed ==
    ~crashed =>
        /\ \A b \in SeqToSet(BlockSeq(Heap)) : IsMapped(Heap, b)
        /\ \A b \in DOMAIN acquired : TimesListed(b) = 1
        /\ \A p \in DOMAIN live : getBlockWithRegion(Heap, p) \in Enclosing(p)

\* C32: after any public call, every region linked in freeRegions[i] of a
\* block the process holds has a size whose toFreeListIndex is i
C32_ClassOfSize ==
    ~crashed =>
        \A b \in DOMAIN held : \A i \in 0..(FREE_BLOCKS_SETS - 1) :
            \A r \in SeqToSet(ClassList(b, i)) : toFreeListIndex(SizeOf(Heap, r)) = i
\* a free has merged the region of its pointer with the free region on its
\* left: the merged region is the one node of class 4 and holds the pointer,
\* each half of it would be of class 3, and class 3 lists nothing any more,
\* while the rest of the block is in class 5
C32_Witness ==
    /\ ~crashed
    /\ call.op = "free"
    /\ \E b \in DOMAIN held :
           /\ ClassList(b, 3) = <<>>
           /\ ClassList(b, 5) # <<>>
           /\ Len(ClassList(b, 4)) = 1
           /\ LET r == ClassList(b, 4)[1]
              IN /\ r + SizeofMetadata < call.ptr
                 /\ call.ptr < r + SizeOf(Heap, r)
                 /\ toFreeListIndex(SizeOf(Heap, r) \div 2) = 3
====
